---------------------------- MODULE Spec2Model ----------------------------
(***************************************************************************)
(* Model of meeting_notes.py: the audio -> transcript -> minutes pipeline. *)
(*                                                                         *)
(* Text is a sequence of one-character strings.  A decoded JSON value is a *)
(* record [t, s, n, a, m]: t is the Python type of the value ("str",       *)
(* "num", "null", "bool", "arr", "obj"), s the characters of a str, n the  *)
(* value of an int (1/0 for True/False), a the elements of a list and m    *)
(* the items of a dict as <<key, value>> pairs in insertion order.         *)
(* An Optional[...] argument is <<>> for None and <<v>> for the value v.   *)
(***************************************************************************)
EXTENDS Integers, Sequences, FiniteSets, TLC

(***************************************************************************)
(* Bounds of the model.                                                    *)
(***************************************************************************)
MaxAudioMs == 3200
MaxChunkSeconds == 2
MaxHalfSeconds == 5

\* chunk_audio: stride = chunk_seconds * 1000
MsPerSecond == 1000

Min(a, b) == IF a <= b THEN a ELSE b

(***************************************************************************)
(* Text helpers: str.strip, str.join.                                      *)
(***************************************************************************)
\* the characters str.strip() removes, within the alphabet of the model
PyWhitespace == {" ", "\n", "\t"}
\* the characters the JSON decoder skips between tokens
JsonWhitespace == {" ", "\n", "\t"}
\* the backtick character, which a TLA+ string cannot hold
Backtick == "<backtick>"
Fence == {Backtick}

RECURSIVE LStrip(_, _)
LStrip(s, chars) ==
    IF s # <<>> /\ Head(s) \in chars THEN LStrip(Tail(s), chars) ELSE s

RECURSIVE RStrip(_, _)
RStrip(s, chars) ==
    IF s # <<>> /\ s[Len(s)] \in chars
    THEN RStrip(SubSeq(s, 1, Len(s) - 1), chars)
    ELSE s

\* s.strip(chars)
Strip(s, chars) == RStrip(LStrip(s, chars), chars)

\* sep.join(parts) done with a separator after every part
RECURSIVE JoinTrailing(_, _)
JoinTrailing(sep, parts) ==
    IF parts = <<>> THEN <<>>
    ELSE parts[1] \o sep \o JoinTrailing(sep, Tail(parts))

\* sep.join(parts)
RECURSIVE Join(_, _)
Join(sep, parts) ==
    IF parts = <<>> THEN <<>>
    ELSE IF Len(parts) = 1 THEN parts[1]
    ELSE parts[1] \o sep \o Join(sep, Tail(parts))

(***************************************************************************)
(* JSON values as Python objects.                                          *)
(***************************************************************************)
JStr(chars) == [t |-> "str", s |-> chars, n |-> 0, a |-> <<>>, m |-> <<>>]
JNum(k) == [t |-> "num", s |-> <<>>, n |-> k, a |-> <<>>, m |-> <<>>]
JBool(b) == [t |-> "bool", s |-> <<>>, n |-> IF b THEN 1 ELSE 0, a |-> <<>>, m |-> <<>>]
JArr(elems) == [t |-> "arr", s |-> <<>>, n |-> 0, a |-> elems, m |-> <<>>]
JObj(items) == [t |-> "obj", s |-> <<>>, n |-> 0, a |-> <<>>, m |-> items]
\* Python None (JSON null)
None == [t |-> "null", s |-> <<>>, n |-> 0, a |-> <<>>, m |-> <<>>]

\* bool(v)
Truthy(v) ==
    CASE v.t = "str" -> v.s # <<>>
      [] v.t = "num" -> v.n # 0
      [] v.t = "bool" -> v.n # 0
      [] v.t = "arr" -> v.a # <<>>
      [] v.t = "obj" -> v.m # <<>>
      [] OTHER -> FALSE

\* isinstance(v, list), isinstance(v, dict)
IsList(v) == v.t = "arr"
IsDict(v) == v.t = "obj"

HasKey(items, key) == \E i \in 1..Len(items) : items[i][1] = key

\* d[key] = val on a dict: a key already present keeps its position
DictSet(items, key, val) ==
    IF HasKey(items, key)
    THEN [i \in 1..Len(items) |->
             IF items[i][1] = key THEN <<key, val>> ELSE items[i]]
    ELSE Append(items, <<key, val>>)

\* d.get(key, default) on a dict
DictGet(d, key, default) ==
    IF HasKey(d.m, key)
    THEN d.m[CHOOSE i \in 1..Len(d.m) : d.m[i][1] = key][2]
    ELSE default

(***************************************************************************)
(* json.loads, for the subset of JSON over the model's alphabet: objects,  *)
(* arrays, strings without escapes, integers, null, true, false.           *)
(* A parse result is [ok, val, pos]: pos is the index after the value.     *)
(***************************************************************************)
Digits == {"0", "1", "2", "3", "4", "5", "6", "7", "8", "9"}
DigitVal(c) ==
    CASE c = "0" -> 0 [] c = "1" -> 1 [] c = "2" -> 2 [] c = "3" -> 3
      [] c = "4" -> 4 [] c = "5" -> 5 [] c = "6" -> 6 [] c = "7" -> 7
      [] c = "8" -> 8 [] OTHER -> 9

ParseFail == [ok |-> FALSE, val |-> None, pos |-> 0]
ParseOk(v, p) == [ok |-> TRUE, val |-> v, pos |-> p]

RECURSIVE SkipWs(_, _)
SkipWs(s, i) ==
    IF i <= Len(s) /\ s[i] \in JsonWhitespace THEN SkipWs(s, i + 1) ELSE i

\* does s carry the literal lit at index i
StartsWith(s, i, lit) ==
    /\ i + Len(lit) - 1 <= Len(s)
    /\ SubSeq(s, i, i + Len(lit) - 1) = lit

\* index of the closing quote of a string whose first character is at i,
\* 0 when the string is unterminated or holds a control character
RECURSIVE StringEnd(_, _)
StringEnd(s, i) ==
    IF i > Len(s) THEN 0
    ELSE IF s[i] = "\"" THEN i
    ELSE IF s[i] \in {"\n", "\t", "\\"} THEN 0
    ELSE StringEnd(s, i + 1)

\* s[i] is the opening quote
ParseString(s, i) ==
    LET e == StringEnd(s, i + 1) IN
    IF e = 0 THEN ParseFail ELSE ParseOk(JStr(SubSeq(s, i + 1, e - 1)), e + 1)

RECURSIVE DigitsEnd(_, _)
DigitsEnd(s, i) ==
    IF i <= Len(s) /\ s[i] \in Digits THEN DigitsEnd(s, i + 1) ELSE i

RECURSIVE DigitsValue(_, _, _)
DigitsValue(s, i, e) ==
    IF i >= e THEN 0
    ELSE DigitVal(s[e - 1]) + 10 * DigitsValue(s, i, e - 1)

\* -?(0|[1-9][0-9]*)
ParseNumber(s, i) ==
    LET neg == s[i] = "-"
        d == IF neg THEN i + 1 ELSE i
        e == IF d <= Len(s) /\ s[d] = "0" THEN d + 1 ELSE DigitsEnd(s, d)
    IN IF e = d THEN ParseFail
       ELSE ParseOk(JNum(IF neg THEN 0 - DigitsValue(s, d, e)
                                ELSE DigitsValue(s, d, e)), e)

RECURSIVE ParseValue(_, _)
RECURSIVE ParseMembers(_, _, _)
RECURSIVE ParseElements(_, _, _)

\* s[i] is the first character of a value
ParseValue(s, i) ==
    IF i > Len(s) THEN ParseFail
    ELSE IF s[i] = "\"" THEN ParseString(s, i)
    ELSE IF s[i] = "{" THEN
        LET j == SkipWs(s, i + 1) IN
        IF j <= Len(s) /\ s[j] = "}" THEN ParseOk(JObj(<<>>), j + 1)
        ELSE ParseMembers(s, j, <<>>)
    ELSE IF s[i] = "[" THEN
        LET j == SkipWs(s, i + 1) IN
        IF j <= Len(s) /\ s[j] = "]" THEN ParseOk(JArr(<<>>), j + 1)
        ELSE ParseElements(s, j, <<>>)
    ELSE IF StartsWith(s, i, <<"n", "u", "l", "l">>) THEN ParseOk(None, i + 4)
    ELSE IF StartsWith(s, i, <<"t", "r", "u", "e">>) THEN ParseOk(JBool(TRUE), i + 4)
    ELSE IF StartsWith(s, i, <<"f", "a", "l", "s", "e">>) THEN ParseOk(JBool(FALSE), i + 5)
    ELSE IF s[i] = "-" \/ s[i] \in Digits THEN ParseNumber(s, i)
    ELSE ParseFail

\* i is the index where a "key": value pair must start; acc the items so far
ParseMembers(s, i, acc) ==
    IF i > Len(s) \/ s[i] # "\"" THEN ParseFail
    ELSE
        LET k == ParseString(s, i) IN
        IF ~k.ok THEN ParseFail
        ELSE
            LET c == SkipWs(s, k.pos) IN
            IF c > Len(s) \/ s[c] # ":" THEN ParseFail
            ELSE
                LET v == ParseValue(s, SkipWs(s, c + 1)) IN
                IF ~v.ok THEN ParseFail
                ELSE
                    LET items == DictSet(acc, k.val.s, v.val)
                        e == SkipWs(s, v.pos)
                    IN IF e > Len(s) THEN ParseFail
                       ELSE IF s[e] = "}" THEN ParseOk(JObj(items), e + 1)
                       ELSE IF s[e] = "," THEN ParseMembers(s, SkipWs(s, e + 1), items)
                       ELSE ParseFail

\* i is the index where an element must start; acc the elements so far
ParseElements(s, i, acc) ==
    LET v == ParseValue(s, i) IN
    IF ~v.ok THEN ParseFail
    ELSE
        LET elems == Append(acc, v.val)
            e == SkipWs(s, v.pos)
        IN IF e > Len(s) THEN ParseFail
           ELSE IF s[e] = "]" THEN ParseOk(JArr(elems), e + 1)
           ELSE IF s[e] = "," THEN ParseElements(s, SkipWs(s, e + 1), elems)
           ELSE ParseFail

\* json.loads(s): ok = FALSE stands for json.JSONDecodeError
JsonLoads(s) ==
    LET v == ParseValue(s, SkipWs(s, 1)) IN
    IF v.ok /\ SkipWs(s, v.pos) = Len(s) + 1 THEN v ELSE ParseFail

(***************************************************************************)
(* MeetingMinutes and its rendering.                                       *)
(***************************************************************************)
\* the dash the renderer puts after an owner
OwnerDash == "<dash>"

RECURSIVE NatToChars(_)
NatToChars(k) ==
    LET d == <<"0", "1", "2", "3", "4", "5", "6", "7", "8", "9">>[(k % 10) + 1] IN
    IF k < 10 THEN <<d>> ELSE NatToChars(k \div 10) \o <<d>>

IntToChars(k) == IF k < 0 THEN <<"-">> \o NatToChars(0 - k) ELSE NatToChars(k)

\* str(v) when quoted = FALSE, repr(v) when quoted = TRUE
RECURSIVE PyFormat(_, _)
PyFormat(v, quoted) ==
    CASE v.t = "str" -> IF quoted THEN <<"'">> \o v.s \o <<"'">> ELSE v.s
      [] v.t = "num" -> IntToChars(v.n)
      [] v.t = "bool" -> IF v.n = 1 THEN <<"T", "r", "u", "e">>
                                    ELSE <<"F", "a", "l", "s", "e">>
      [] v.t = "arr" ->
            <<"[">> \o Join(<<",", " ">>,
                            [i \in 1..Len(v.a) |-> PyFormat(v.a[i], TRUE)])
                    \o <<"]">>
      [] v.t = "obj" ->
            <<"{">> \o Join(<<",", " ">>,
                            [i \in 1..Len(v.m) |->
                                <<"'">> \o v.m[i][1] \o <<"'", ":", " ">>
                                        \o PyFormat(v.m[i][2], TRUE)])
                    \o <<"}">>
      [] OTHER -> <<"N", "o", "n", "e">>

PyStr(v) == PyFormat(v, FALSE)

\* [f"- {item}" for item in items]
Bullets(items) == [i \in 1..Len(items) |-> <<"-", " ">> \o PyStr(items[i])]

\* f"- [ ] {owner_text}{action.description}{due_text}"
ActionLine(action) ==
    LET owner_text == IF Truthy(action.owner)
                      THEN PyStr(action.owner) \o <<" ", OwnerDash, " ">>
                      ELSE <<>>
        due_text == IF Truthy(action.due_date)
                    THEN <<" ", "(", "d", "u", "e", " ">>
                             \o PyStr(action.due_date) \o <<")">>
                    ELSE <<>>
    IN <<"-", " ", "[", " ", "]", " ">> \o owner_text \o action.description \o due_text

\* MeetingMinutes.to_markdown
to_markdown(self, title) ==
    LET header == << <<"#", " ">> \o title \o <<" ", "-", " ">> \o self.date, <<>> >>
        summary == IF self.summary # <<>>
                   THEN << <<"#", "#", " ", "S", "u", "m", "m", "a", "r", "y">> >>
                            \o Bullets(self.summary) \o << <<>> >>
                   ELSE <<>>
        decisions == IF self.decisions # <<>>
                     THEN << <<"#", "#", " ", "D", "e", "c", "i", "s", "i", "o", "n", "s">> >>
                              \o Bullets(self.decisions) \o << <<>> >>
                     ELSE <<>>
        actions == IF self.action_items # <<>>
                   THEN << <<"#", "#", " ", "A", "c", "t", "i", "o", "n", " ",
                             "I", "t", "e", "m", "s">> >>
                            \o [i \in 1..Len(self.action_items) |->
                                   ActionLine(self.action_items[i])]
                            \o << <<>> >>
                   ELSE <<>>
        timeline == IF self.timeline # <<>>
                    THEN << <<"#", "#", " ", "T", "i", "m", "e", "l", "i", "n", "e">> >>
                             \o Bullets(self.timeline) \o << <<>> >>
                    ELSE <<>>
        transcript == << <<"#", "#", " ", "F", "u", "l", "l", " ", "T", "r", "a", "n",
                           "s", "c", "r", "i", "p", "t">>,
                         self.transcript >>
        lines == header \o summary \o decisions \o actions \o timeline \o transcript
    IN Strip(Join(<<"\n">>, lines), PyWhitespace) \o <<"\n">>

(***************************************************************************)
(* The replies of the extraction call the model draws from.  kind says     *)
(* what the text is: a JSON object, a JSON object inside a fenced block, a *)
(* JSON value that is not an object, no JSON at all, or no text.           *)
(***************************************************************************)
\* "{}"
EmptyObject ==
    [kind |-> "object",
     text |-> <<"{", "}">>]

\* "not json at all"
NotJson ==
    [kind |-> "notjson",
     text |-> <<"n", "o", "t", " ", "j", "s", "o", "n", " ", "a", "t", " ",
                "a", "l", "l">>]

\* "<fence>json\n{\"summary\":[\"a\"]}\n<fence>"
FencedTagged ==
    [kind |-> "fenced",
     text |-> <<Backtick, Backtick, Backtick, "j", "s", "o", "n", "\n", "{",
                "\"", "s", "u", "m", "m", "a", "r", "y", "\"", ":", "[",
                "\"", "a", "\"", "]", "}", "\n", Backtick, Backtick,
                Backtick>>]

\* " <fence>\n{\"summary\":[\"a\"]}\n<fence> "
FencedBare ==
    [kind |-> "fenced",
     text |-> <<" ", Backtick, Backtick, Backtick, "\n", "{", "\"", "s",
                "u", "m", "m", "a", "r", "y", "\"", ":", "[", "\"", "a",
                "\"", "]", "}", "\n", Backtick, Backtick, Backtick, " ">>]

\* "[1]"
BareList ==
    [kind |-> "nonobject",
     text |-> <<"[", "1", "]">>]

\* "7"
BareNumber ==
    [kind |-> "nonobject",
     text |-> <<"7">>]

\* "null"
BareNull ==
    [kind |-> "nonobject",
     text |-> <<"n", "u", "l", "l">>]

\* "\"text\""
BareString ==
    [kind |-> "nonobject",
     text |-> <<"\"", "t", "e", "x", "t", "\"">>]

\* "{\"summary\":\"x\",\"decisions\":{\"a\":1},\"action_items\":3,\"timeline\":null}"
WrongShape ==
    [kind |-> "object",
     text |-> <<"{", "\"", "s", "u", "m", "m", "a", "r", "y", "\"", ":",
                "\"", "x", "\"", ",", "\"", "d", "e", "c", "i", "s", "i",
                "o", "n", "s", "\"", ":", "{", "\"", "a", "\"", ":", "1",
                "}", ",", "\"", "a", "c", "t", "i", "o", "n", "_", "i", "t",
                "e", "m", "s", "\"", ":", "3", ",", "\"", "t", "i", "m",
                "e", "l", "i", "n", "e", "\"", ":", "n", "u", "l", "l",
                "}">>]

\* "{\"action_items\":[{\"description\":\"  \",\"owner\":\"Bob\"}]}"
BlankDescription ==
    [kind |-> "object",
     text |-> <<"{", "\"", "a", "c", "t", "i", "o", "n", "_", "i", "t", "e",
                "m", "s", "\"", ":", "[", "{", "\"", "d", "e", "s", "c",
                "r", "i", "p", "t", "i", "o", "n", "\"", ":", "\"", " ",
                " ", "\"", ",", "\"", "o", "w", "n", "e", "r", "\"", ":",
                "\"", "B", "o", "b", "\"", "}", "]", "}">>]

\* "{\"action_items\":[{\"description\":\"Ship it\",\"owner\":\"\"}]}"
EmptyOwner ==
    [kind |-> "object",
     text |-> <<"{", "\"", "a", "c", "t", "i", "o", "n", "_", "i", "t", "e",
                "m", "s", "\"", ":", "[", "{", "\"", "d", "e", "s", "c",
                "r", "i", "p", "t", "i", "o", "n", "\"", ":", "\"", "S",
                "h", "i", "p", " ", "i", "t", "\"", ",", "\"", "o", "w",
                "n", "e", "r", "\"", ":", "\"", "\"", "}", "]", "}">>]

\* "{\"action_items\":[{\"owner\":\"Bob\"},{\"description\":\"\"},[1],\"x\",{\"description\":\" go \",\"due_date\":\"Fri\"}]}"
MixedActions ==
    [kind |-> "object",
     text |-> <<"{", "\"", "a", "c", "t", "i", "o", "n", "_", "i", "t", "e",
                "m", "s", "\"", ":", "[", "{", "\"", "o", "w", "n", "e",
                "r", "\"", ":", "\"", "B", "o", "b", "\"", "}", ",", "{",
                "\"", "d", "e", "s", "c", "r", "i", "p", "t", "i", "o", "n",
                "\"", ":", "\"", "\"", "}", ",", "[", "1", "]", ",", "\"",
                "x", "\"", ",", "{", "\"", "d", "e", "s", "c", "r", "i",
                "p", "t", "i", "o", "n", "\"", ":", "\"", " ", "g", "o",
                " ", "\"", ",", "\"", "d", "u", "e", "_", "d", "a", "t",
                "e", "\"", ":", "\"", "F", "r", "i", "\"", "}", "]", "}">>]

\* "{\"action_items\":[{\"description\":5}]}"
NumberDescription ==
    [kind |-> "object",
     text |-> <<"{", "\"", "a", "c", "t", "i", "o", "n", "_", "i", "t", "e",
                "m", "s", "\"", ":", "[", "{", "\"", "d", "e", "s", "c",
                "r", "i", "p", "t", "i", "o", "n", "\"", ":", "5", "}", "]",
                "}">>]

\* "{\"summary\":[\"a\",\"b\"],\"decisions\":[\"d\"],\"action_items\":[{\"description\":\"do\",\"owner\":\"Al\",\"due_date\":\"Fri\"}],\"timeline\":[\"00:01 t\"]}"
Full ==
    [kind |-> "object",
     text |-> <<"{", "\"", "s", "u", "m", "m", "a", "r", "y", "\"", ":",
                "[", "\"", "a", "\"", ",", "\"", "b", "\"", "]", ",", "\"",
                "d", "e", "c", "i", "s", "i", "o", "n", "s", "\"", ":", "[",
                "\"", "d", "\"", "]", ",", "\"", "a", "c", "t", "i", "o",
                "n", "_", "i", "t", "e", "m", "s", "\"", ":", "[", "{",
                "\"", "d", "e", "s", "c", "r", "i", "p", "t", "i", "o", "n",
                "\"", ":", "\"", "d", "o", "\"", ",", "\"", "o", "w", "n",
                "e", "r", "\"", ":", "\"", "A", "l", "\"", ",", "\"", "d",
                "u", "e", "_", "d", "a", "t", "e", "\"", ":", "\"", "F",
                "r", "i", "\"", "}", "]", ",", "\"", "t", "i", "m", "e",
                "l", "i", "n", "e", "\"", ":", "[", "\"", "0", "0", ":",
                "0", "1", " ", "t", "\"", "]", "}">>]

\* "{\"date\":\"x\",\"transcript\":\"y\",\"summary\":[\"s\"]}"
PayloadDate ==
    [kind |-> "object",
     text |-> <<"{", "\"", "d", "a", "t", "e", "\"", ":", "\"", "x", "\"",
                ",", "\"", "t", "r", "a", "n", "s", "c", "r", "i", "p", "t",
                "\"", ":", "\"", "y", "\"", ",", "\"", "s", "u", "m", "m",
                "a", "r", "y", "\"", ":", "[", "\"", "s", "\"", "]", "}">>]

\* ""
EmptyContent ==
    [kind |-> "empty",
     text |-> <<>>]

\* " {\"decisions\":[\"d\",2]}\n"
Padded ==
    [kind |-> "object",
     text |-> <<" ", "{", "\"", "d", "e", "c", "i", "s", "i", "o", "n", "s",
                "\"", ":", "[", "\"", "d", "\"", ",", "2", "]", "}", "\n">>]

\* "{\"summary\":[\"a\"],}"
TrailingComma ==
    [kind |-> "notjson",
     text |-> <<"{", "\"", "s", "u", "m", "m", "a", "r", "y", "\"", ":",
                "[", "\"", "a", "\"", "]", ",", "}">>]

\* "{\"summary\":[\"a\"],\"summary\":[true,-10]}"
DuplicateKey ==
    [kind |-> "object",
     text |-> <<"{", "\"", "s", "u", "m", "m", "a", "r", "y", "\"", ":",
                "[", "\"", "a", "\"", "]", ",", "\"", "s", "u", "m", "m",
                "a", "r", "y", "\"", ":", "[", "t", "r", "u", "e", ",", "-",
                "1", "0", "]", "}">>]

Payloads ==
    << EmptyObject,
       NotJson,
       FencedTagged,
       FencedBare,
       BareList,
       BareNumber,
       BareNull,
       BareString,
       WrongShape,
       BlankDescription,
       EmptyOwner,
       MixedActions,
       NumberDescription,
       Full,
       PayloadDate,
       EmptyContent,
       Padded,
       TrailingComma,
       DuplicateKey >>

(***************************************************************************)
(* summarize_transcript, after the extraction call has returned.           *)
(***************************************************************************)
KeySummary == <<"s", "u", "m", "m", "a", "r", "y">>
KeyDecisions == <<"d", "e", "c", "i", "s", "i", "o", "n", "s">>
KeyActionItems == <<"a", "c", "t", "i", "o", "n", "_", "i", "t", "e", "m", "s">>
KeyTimeline == <<"t", "i", "m", "e", "l", "i", "n", "e">>
KeyDescription == <<"d", "e", "s", "c", "r", "i", "p", "t", "i", "o", "n">>
KeyOwner == <<"o", "w", "n", "e", "r">>
KeyDueDate == <<"d", "u", "e", "_", "d", "a", "t", "e">>

\* completion.choices[0].message.content or "{}"
ContentOrDefault(content) == IF content = <<>> THEN <<"{", "}">> ELSE content

\* the second candidate: content.strip().strip("<backtick>")
StripFences(content) == Strip(Strip(content, PyWhitespace), Fence)

\* the loop over the two candidates with None, not {}, when neither decodes
DecodePayloadNoFallback(content) ==
    LET first == JsonLoads(content)
        second == JsonLoads(StripFences(content))
    IN IF first.ok THEN first.val
       ELSE IF second.ok THEN second.val
       ELSE None

\* the loop over the two candidates: the first that decodes, else {}
DecodePayload(content) ==
    LET first == JsonLoads(content)
        second == JsonLoads(StripFences(content))
    IN IF first.ok THEN first.val
       ELSE IF second.ok THEN second.val
       ELSE JObj(<<>>)

\* data.get(key, []) if isinstance(data.get(key), list) else []
ListField(data, key) ==
    IF IsList(DictGet(data, key, None)) THEN DictGet(data, key, JArr(<<>>)).a ELSE <<>>

\* the filter of the action_items comprehension
KeepsAction(item) == IsDict(item) /\ Truthy(DictGet(item, KeyDescription, None))

\* the ActionItem(...) built for a kept element
MakeActionItem(item) ==
    [description |-> Strip(DictGet(item, KeyDescription, JStr(<<>>)).s, PyWhitespace),
     owner |-> IF Truthy(DictGet(item, KeyOwner, None))
               THEN DictGet(item, KeyOwner, None) ELSE None,
     due_date |-> IF Truthy(DictGet(item, KeyDueDate, None))
                  THEN DictGet(item, KeyDueDate, None) ELSE None]

RECURSIVE BuildActionItems(_)
BuildActionItems(raw) ==
    IF raw = <<>> THEN <<>>
    ELSE IF KeepsAction(Head(raw))
         THEN <<MakeActionItem(Head(raw))>> \o BuildActionItems(Tail(raw))
         ELSE BuildActionItems(Tail(raw))

\* .strip() is called on a description that is not a str
StripRaises(raw) ==
    \E i \in 1..Len(raw) :
        KeepsAction(raw[i]) /\ DictGet(raw[i], KeyDescription, JStr(<<>>)).t # "str"

NoMinutes ==
    [date |-> <<>>, summary |-> <<>>, decisions |-> <<>>, action_items |-> <<>>,
     timeline |-> <<>>, transcript |-> <<>>]

\* lines 146-177: raised names the exception that leaves the function, if any
ParseMinutes(raw_content, transcript, meeting_date) ==
    LET data == DecodePayload(ContentOrDefault(raw_content)) IN
    IF ~IsDict(data)
    THEN [raised |-> "AttributeError", minutes |-> NoMinutes]
    ELSE IF StripRaises(ListField(data, KeyActionItems))
    THEN [raised |-> "AttributeError", minutes |-> NoMinutes]
    ELSE [raised |-> "",
          minutes |-> [date |-> meeting_date,
                       summary |-> ListField(data, KeySummary),
                       decisions |-> ListField(data, KeyDecisions),
                       action_items |-> BuildActionItems(ListField(data, KeyActionItems)),
                       timeline |-> ListField(data, KeyTimeline),
                       transcript |-> transcript]]

(***************************************************************************)
(* chunk_audio and the pydub operations it uses.                           *)
(***************************************************************************)
\* stride = chunk_seconds * 1000
Stride(seconds) == seconds * MsPerSecond

\* a slice that is not clamped to the audio
ChunkSliceUnclamped(len, start, stride) ==
    [lo |-> start, hi |-> start + stride]

\* audio[start_ms : start_ms + stride]: a slice is clamped to the audio
ChunkSlice(len, start, stride) ==
    [lo |-> Min(start, len), hi |-> Min(start + stride, len)]

\* range(0, len(audio), stride) still has a value at start
RangeHasNext(len, start) == start < len

\* a range that skips a millisecond between values
RangeNextOffByOne(start, stride) == start + stride + 1

\* the next value of the range after start
RangeNext(start, stride) == start + stride

(***************************************************************************)
(* The pipeline: main, transcribe_audio, summarize_transcript.             *)
(***************************************************************************)
VARIABLES
    pc,               \* the position of main
    api_key,          \* OPENAI_API_KEY is set and non-empty
    audio_path,       \* what args.audio names: "file", "missing", "directory"
    audio_len,        \* len(audio), milliseconds
    chunk_seconds,    \* args.chunk_seconds
    prompt,           \* args.whisper_prompt
    language,         \* args.language
    meeting_date,     \* args.date
    start_ms,         \* chunk_audio: the loop variable
    yielded,          \* chunk_audio: the segments yielded so far
    segments,         \* transcribe_audio: the list of chunk texts
    calls,            \* the requests the transcription client has received
    replies,          \* the texts the transcription client has returned
    held,             \* the open temporary files and file handles
    transcript,       \* main: transcript
    extract_requests, \* the requests the chat client has received
    completion,       \* the reply of the chat client
    minutes,          \* main: minutes
    error,            \* the exception that ended the run
    output            \* the contents of args.output

vars == <<pc, api_key, audio_path, audio_len, chunk_seconds, prompt, language,
          meeting_date, start_ms, yielded, segments, calls, replies, held,
          transcript, extract_requests, completion, minutes, error, output>>

args == <<api_key, audio_path, audio_len, chunk_seconds, prompt, language, meeting_date>>

\* --title, --summary-model defaults
Title == <<"M", "e", "e", "t", "i", "n", "g", " ", "M", "i", "n", "u", "t", "e", "s">>
SummaryModel == "gpt-4o-mini"
WhisperModel == "whisper-1"

\* the texts a transcription call returns in the model
ResponseTexts == { <<>>, <<"a">>, <<"h", "i">> }
\* the lengths of the audio in the model, in milliseconds
AudioLens == { k * (MsPerSecond \div 2) : k \in 0..MaxHalfSeconds }
ChunkSecondsArgs == { <<>> } \cup { <<k>> : k \in (0 - 1)..MaxChunkSeconds }
Dates == { <<"0", "5", "-", "0", "1">> }

\* if chunk_seconds and chunk_seconds > 0
Chunked(seconds) == seconds # <<>> /\ seconds[1] # 0 /\ seconds[1] > 0

\* an exception leaves main: type, message, and the chunk position the
\* pipeline attaches to it (none: no handler wraps the exception)
Raise(type, message) == <<[type |-> type, message |-> message, chunk |-> <<>>]>>

Init ==
    /\ pc = "start"
    /\ api_key \in BOOLEAN
    /\ audio_path \in {"file", "missing", "directory"}
    /\ audio_len \in AudioLens
    /\ chunk_seconds \in ChunkSecondsArgs
    /\ prompt \in { <<>>, <<"agenda">> }
    /\ language \in { <<>>, <<"ko">> }
    /\ meeting_date \in Dates
    /\ start_ms = 0
    /\ yielded = <<>>
    /\ segments = <<>>
    /\ calls = <<>>
    /\ replies = <<>>
    /\ held = {}
    /\ transcript = <<>>
    /\ extract_requests = <<>>
    /\ completion = <<>>
    /\ minutes = <<>>
    /\ error = <<>>
    /\ output = <<>>

\* require_api_key
RequireApiKey ==
    /\ pc = "start"
    /\ IF api_key
       THEN pc' = "validate" /\ error' = error
       ELSE pc' = "failed" /\ error' = Raise("SystemExit", "Missing OPENAI_API_KEY")
    /\ UNCHANGED <<args, start_ms, yielded, segments, calls, replies, held,
                   transcript, extract_requests, completion, minutes, output>>

\* validate_audio_path, then the branch on chunk_seconds
ValidateAudioPath ==
    /\ pc = "validate"
    /\ IF audio_path = "missing"
       THEN pc' = "failed" /\ error' = Raise("SystemExit", "Audio file not found")
       ELSE IF audio_path = "directory"
       THEN pc' = "failed" /\ error' = Raise("SystemExit", "Audio path is not a file")
       ELSE /\ pc' = IF Chunked(chunk_seconds) THEN "chunk_load" ELSE "whole_open"
            /\ error' = error
    /\ UNCHANGED <<args, start_ms, yielded, segments, calls, replies, held,
                   transcript, extract_requests, completion, minutes, output>>

\* chunk_audio up to the loop: AudioSegment.from_file decodes the audio or raises
LoadAudio ==
    /\ pc = "chunk_load"
    /\ \E decoded \in BOOLEAN :
          IF decoded
          THEN pc' = "chunk_loop" /\ error' = error
          ELSE pc' = "failed" /\ error' = Raise("CouldntDecodeError", "decoding failed")
    /\ start_ms' = 0
    /\ UNCHANGED <<args, yielded, segments, calls, replies, held,
                   transcript, extract_requests, completion, minutes, output>>

\* one iteration up to the request: the generator yields the next segment, the
\* temporary file is created, the segment exported, the file opened and sent
BeginChunk ==
    /\ pc = "chunk_loop"
    /\ RangeHasNext(audio_len, start_ms)
    /\ LET segment == ChunkSlice(audio_len, start_ms, Stride(chunk_seconds[1]))
           index == Len(segments)
       IN /\ yielded' = Append(yielded, segment)
          /\ \E exported \in BOOLEAN :
                IF exported
                THEN /\ held' = held \cup {<<"tempfile", index>>, <<"handle", index>>}
                     /\ calls' = Append(calls, [model |-> WhisperModel,
                                                lo |-> segment.lo, hi |-> segment.hi,
                                                prompt |-> prompt, language |-> language])
                     /\ pc' = "chunk_call"
                     /\ error' = error
                ELSE \* the with block releases the temporary file
                     /\ held' = held
                     /\ calls' = calls
                     /\ pc' = "failed"
                     /\ error' = Raise("ExportError", "encoding failed")
    /\ UNCHANGED <<args, start_ms, segments, replies,
                   transcript, extract_requests, completion, minutes, output>>

\* what is held once the with block of a chunk is left: the temporary file is
\* closed and deleted; the handle of open(temp.name, "rb") is bound to no name
\* and never closed by the code, so it is open until the interpreter
\* finalizes the object
AfterChunk(h, index, finalized) ==
    IF finalized
    THEN h \ {<<"tempfile", index>>, <<"handle", index>>}
    ELSE h \ {<<"tempfile", index>>}

\* the transcription call of a chunk returns: segments.append(response.text)
ChunkReply ==
    /\ pc = "chunk_call"
    /\ \E text \in ResponseTexts :
          /\ replies' = Append(replies, text)
          /\ segments' = Append(segments, text)
    /\ \E finalized \in BOOLEAN : held' = AfterChunk(held, Len(segments), finalized)
    /\ start_ms' = RangeNext(start_ms, Stride(chunk_seconds[1]))
    /\ pc' = "chunk_loop"
    /\ UNCHANGED <<args, yielded, calls, transcript, extract_requests,
                   completion, minutes, error, output>>

\* the transcription call of a chunk raises and the loop goes on to the next
\* chunk without its text
ChunkErrorSwallowed ==
    /\ pc = "chunk_call"
    /\ \E finalized \in BOOLEAN : held' = AfterChunk(held, Len(segments), finalized)
    /\ start_ms' = RangeNext(start_ms, Stride(chunk_seconds[1]))
    /\ pc' = "chunk_loop"
    /\ UNCHANGED <<args, yielded, segments, calls, replies, transcript,
                   extract_requests, completion, minutes, error, output>>

\* the transcription call of a chunk raises: the exception leaves
\* transcribe_audio and main as the client raised it
ChunkError ==
    /\ pc = "chunk_call"
    /\ \E finalized \in BOOLEAN : held' = AfterChunk(held, Len(segments), finalized)
    /\ \E message \in {"timeout", "bad request"} :
          error' = Raise("APIError", message)
    /\ pc' = "failed"
    /\ UNCHANGED <<args, start_ms, yielded, segments, calls, replies, transcript,
                   extract_requests, completion, minutes, output>>

\* the generator is exhausted: return "\n".join(segments)
JoinSegments ==
    /\ pc = "chunk_loop"
    /\ ~RangeHasNext(audio_len, start_ms)
    /\ transcript' = <<Join(<<"\n">>, segments)>>
    /\ pc' = "summarize"
    /\ UNCHANGED <<args, start_ms, yielded, segments, calls, replies, held,
                   extract_requests, completion, minutes, error, output>>

\* no chunking: the audio file is opened and sent whole
WholeCall ==
    /\ pc = "whole_open"
    /\ held' = held \cup {<<"handle", "audio_file">>}
    /\ calls' = Append(calls, [model |-> WhisperModel, lo |-> 0, hi |-> audio_len,
                               prompt |-> prompt, language |-> language])
    /\ pc' = "whole_call"
    /\ UNCHANGED <<args, start_ms, yielded, segments, replies, transcript,
                   extract_requests, completion, minutes, error, output>>

\* the call returns: the with block closes audio_file; return response.text
WholeReply ==
    /\ pc = "whole_call"
    /\ \E text \in ResponseTexts :
          /\ replies' = Append(replies, text)
          /\ transcript' = <<text>>
    /\ held' = held \ {<<"handle", "audio_file">>}
    /\ pc' = "summarize"
    /\ UNCHANGED <<args, start_ms, yielded, segments, calls,
                   extract_requests, completion, minutes, error, output>>

\* the call raises: the with block closes audio_file
WholeError ==
    /\ pc = "whole_call"
    /\ held' = held \ {<<"handle", "audio_file">>}
    /\ \E message \in {"timeout", "bad request"} :
          error' = Raise("APIError", message)
    /\ pc' = "failed"
    /\ UNCHANGED <<args, start_ms, yielded, segments, calls, replies, transcript,
                   extract_requests, completion, minutes, output>>

\* summarize_transcript up to the request
ExtractCall ==
    /\ pc = "summarize"
    /\ extract_requests' = Append(extract_requests,
                                  [model |-> SummaryModel, title |-> Title,
                                   date |-> meeting_date, transcript |-> transcript[1]])
    /\ pc' = "extract_call"
    /\ UNCHANGED <<args, start_ms, yielded, segments, calls, replies, held,
                   transcript, completion, minutes, error, output>>

\* the chat call returns: the rest of summarize_transcript
ExtractReply ==
    /\ pc = "extract_call"
    /\ \E i \in 1..Len(Payloads) :
          LET result == ParseMinutes(Payloads[i].text, transcript[1], meeting_date) IN
          /\ completion' = <<Payloads[i]>>
          /\ IF result.raised = ""
             THEN /\ minutes' = <<result.minutes>>
                  /\ pc' = "write"
                  /\ error' = error
             ELSE /\ minutes' = minutes
                  /\ pc' = "failed"
                  /\ error' = Raise(result.raised, "object has no attribute")
    /\ UNCHANGED <<args, start_ms, yielded, segments, calls, replies, held,
                   transcript, extract_requests, output>>

\* the chat call raises
ExtractError ==
    /\ pc = "extract_call"
    /\ \E message \in {"timeout", "bad request"} :
          error' = Raise("APIError", message)
    /\ pc' = "failed"
    /\ UNCHANGED <<args, start_ms, yielded, segments, calls, replies, held,
                   transcript, extract_requests, completion, minutes, output>>

\* args.output.write_text(minutes.to_markdown(args.title))
WriteOutput ==
    /\ pc = "write"
    /\ output' = <<to_markdown(minutes[1], Title)>>
    /\ pc' = "done"
    /\ UNCHANGED <<args, start_ms, yielded, segments, calls, replies, held,
                   transcript, extract_requests, completion, minutes, error>>

Next ==
    \/ RequireApiKey
    \/ ValidateAudioPath
    \/ LoadAudio
    \/ BeginChunk
    \/ ChunkReply
    \/ ChunkError
    \/ JoinSegments
    \/ WholeCall
    \/ WholeReply
    \/ WholeError
    \/ ExtractCall
    \/ ExtractReply
    \/ ExtractError
    \/ WriteOutput

Spec == Init /\ [][Next]_vars

(***************************************************************************)
(* chunk_audio on its own: every audio length and chunk duration.          *)
(***************************************************************************)
ChunkInit ==
    /\ pc = "generator"
    /\ audio_len \in 0..MaxAudioMs
    /\ chunk_seconds \in { <<k>> : k \in 1..MaxChunkSeconds }
    /\ api_key = TRUE
    /\ audio_path = "file"
    /\ prompt = <<>>
    /\ language = <<>>
    /\ meeting_date \in Dates
    /\ start_ms = 0
    /\ yielded = <<>>
    /\ segments = <<>>
    /\ calls = <<>>
    /\ replies = <<>>
    /\ held = {}
    /\ transcript = <<>>
    /\ extract_requests = <<>>
    /\ completion = <<>>
    /\ minutes = <<>>
    /\ error = <<>>
    /\ output = <<>>

\* next() on the generator yields a segment
ChunkYield ==
    /\ pc = "generator"
    /\ RangeHasNext(audio_len, start_ms)
    /\ yielded' = Append(yielded, ChunkSlice(audio_len, start_ms, Stride(chunk_seconds[1])))
    /\ start_ms' = RangeNext(start_ms, Stride(chunk_seconds[1]))
    /\ UNCHANGED <<pc, args, segments, calls, replies, held, transcript,
                   extract_requests, completion, minutes, error, output>>

\* next() on the generator raises StopIteration
ChunkStop ==
    /\ pc = "generator"
    /\ ~RangeHasNext(audio_len, start_ms)
    /\ pc' = "exhausted"
    /\ UNCHANGED <<args, start_ms, yielded, segments, calls, replies, held, transcript,
                   extract_requests, completion, minutes, error, output>>

ChunkNext == ChunkYield \/ ChunkStop

ChunkSpec == ChunkInit /\ [][ChunkNext]_vars

(***************************************************************************)
(* Properties.                                                             *)
(***************************************************************************)
\* ceil(a / b) for b > 0
CeilDiv(a, b) == (a + b - 1) \div b

\* the number of transcription calls a complete transcription makes
ExpectedCalls ==
    IF Chunked(chunk_seconds)
    THEN CeilDiv(audio_len, Stride(chunk_seconds[1]))
    ELSE 1

EmptyMinutes ==
    [date |-> meeting_date, summary |-> <<>>, decisions |-> <<>>,
     action_items |-> <<>>, timeline |-> <<>>, transcript |-> transcript[1]]

\* C1: whatever text the extraction call returns, summarize_transcript does
\* not raise and returns minutes; a payload that decodes to a non-object
\* gives minutes whose summary, decisions, action_items and timeline are empty.
C1_PayloadNeverFatal ==
    completion # <<>> =>
        /\ error = <<>>
        /\ minutes # <<>>
        /\ completion[1].kind = "nonobject" => minutes[1] = EmptyMinutes

\* C2: the payload <fence>json\n{"summary":["a"]}\n<fence> is decoded by the
\* retry: summary is ["a"] and every other list field is empty.
C2_TaggedFenceDecoded ==
    completion = <<FencedTagged>> =>
        /\ minutes # <<>>
        /\ minutes[1].summary = <<JStr(<<"a">>)>>
        /\ minutes[1].decisions = <<>>
        /\ minutes[1].action_items = <<>>
        /\ minutes[1].timeline = <<>>

\* C3: no ActionItem of the returned minutes has an empty description.
C3_NoBlankDescription ==
    minutes # <<>> =>
        \A i \in 1..Len(minutes[1].action_items) :
            minutes[1].action_items[i].description # <<>>

\* C4: a run that ended in an error has written no output; the extraction
\* call is issued only when every transcription call has returned a text; the
\* output is written only after transcribe_audio returned the transcript of
\* all the chunks and summarize_transcript returned the minutes.
C4_NoOutputFromFailedRun ==
    /\ error # <<>> => output = <<>>
    /\ extract_requests # <<>> =>
          /\ Len(replies) = Len(calls)
          /\ Len(replies) = ExpectedCalls
          /\ transcript # <<>>
    /\ output # <<>> =>
          /\ api_key /\ audio_path = "file"
          /\ Len(replies) = ExpectedCalls
          /\ transcript # <<>> /\ minutes # <<>> /\ completion # <<>>
          /\ Len(extract_requests) = 1

\* a transcription call failed after an earlier chunk had been transcribed
C4_Witness ==
    /\ pc = "failed"
    /\ error[1].type = "APIError"
    /\ Len(replies) >= 1
    /\ Len(calls) = Len(replies) + 1
    /\ extract_requests = <<>>
    /\ output = <<>>

\* C5: when the transcription call of chunk i raises, the error that ends the
\* run carries the position i of the chunk.
C5_ErrorNamesChunk ==
    (/\ pc = "failed"
     /\ Chunked(chunk_seconds)
     /\ Len(calls) = Len(replies) + 1) =>
        error[1].chunk = <<Len(replies)>>

\* C6: for an audio of length L and a stride > 0, chunk_audio yields
\* ceil(L / stride) segments in ascending order of start offset: segment i
\* starts at (i - 1) * stride, every segment but the last has length stride,
\* the last has length L mod stride (stride when that is 0), no segment is
\* empty, the segments cover [0, L) without gap or overlap, and when L is 0
\* nothing is yielded.
C6_ChunksPartitionAudio ==
    LET stride == Stride(chunk_seconds[1])
        n == Len(yielded)
    IN /\ n <= CeilDiv(audio_len, stride)
       /\ \A i \in 1..n :
             /\ yielded[i].lo = (i - 1) * stride
             /\ yielded[i].hi > yielded[i].lo
             /\ i < CeilDiv(audio_len, stride) => yielded[i].hi - yielded[i].lo = stride
             /\ i > 1 => yielded[i].lo = yielded[i - 1].hi
       /\ pc = "exhausted" =>
             /\ n = CeilDiv(audio_len, stride)
             /\ audio_len = 0 => n = 0
             /\ n > 0 =>
                   /\ yielded[1].lo = 0
                   /\ yielded[n].hi = audio_len
                   /\ yielded[n].hi - yielded[n].lo =
                         IF audio_len % stride = 0 THEN stride ELSE audio_len % stride

\* the generator is exhausted after a short last segment
C6_Witness ==
    /\ pc = "exhausted"
    /\ Len(yielded) >= 2
    /\ audio_len % Stride(chunk_seconds[1]) # 0

\* C7: call k of the transcription client is the call for chunk k when
\* chunk_seconds is positive, and the call for the whole file when it is
\* absent, 0 or negative; prompt and language are those of the arguments;
\* when transcribe_audio returns there was one call per chunk (one call in
\* all without chunking).
ExpectedCall(k) ==
    IF Chunked(chunk_seconds)
    THEN [model |-> WhisperModel,
          lo |-> (k - 1) * Stride(chunk_seconds[1]),
          hi |-> Min(k * Stride(chunk_seconds[1]), audio_len),
          prompt |-> prompt, language |-> language]
    ELSE [model |-> WhisperModel, lo |-> 0, hi |-> audio_len,
          prompt |-> prompt, language |-> language]

C7_OneCallPerChunk ==
    /\ Len(calls) <= ExpectedCalls
    /\ \A k \in 1..Len(calls) : calls[k] = ExpectedCall(k)
    /\ transcript # <<>> => Len(calls) = ExpectedCalls /\ Len(replies) = Len(calls)

\* a chunked transcription of three chunks returned, with both hints given
C7_Witness ==
    /\ transcript # <<>>
    /\ Chunked(chunk_seconds)
    /\ Len(calls) = 3
    /\ prompt # <<>> /\ language # <<>>

\* C8: the transcript is the texts of the chunks in chunk order with one
\* newline between consecutive texts and none at either end; without
\* chunking, and for a single chunk, it is the one text unchanged.
RECURSIVE TextStart(_)
TextStart(i) == IF i = 1 THEN 1 ELSE TextStart(i - 1) + Len(replies[i - 1]) + 1

C8_TranscriptIsJoin ==
    transcript # <<>> =>
        LET t == transcript[1]
            n == Len(replies)
        IN /\ n = 0 => t = <<>>
           /\ n = 1 => t = replies[1]
           /\ n > 0 => Len(t) = TextStart(n) + Len(replies[n]) - 1
           /\ \A i \in 1..n :
                 /\ SubSeq(t, TextStart(i), TextStart(i) + Len(replies[i]) - 1) = replies[i]
                 /\ i < n => t[TextStart(i) + Len(replies[i])] = "\n"

\* three chunks with different texts were joined
C8_Witness ==
    /\ transcript # <<>>
    /\ Chunked(chunk_seconds)
    /\ Len(replies) = 3
    /\ replies[1] # replies[2]
    /\ replies[3] # <<>>

\* C9: a payload that is no JSON gives the minutes the payload {} gives:
\* summary, decisions, action_items and timeline empty, date and transcript
\* those of the pipeline; and the date and transcript of any minutes are
\* those of the pipeline, whatever the payload holds.
C9_NotJsonIsEmptyObject ==
    /\ (completion # <<>> /\ (completion[1].kind = "notjson" \/ completion[1] = EmptyObject)) =>
          /\ error = <<>>
          /\ minutes = <<EmptyMinutes>>
    /\ minutes # <<>> =>
          /\ minutes[1].date = meeting_date
          /\ minutes[1].transcript = transcript[1]

\* the minutes of a payload that is no JSON, over a non-empty transcript
C9_Witness ==
    /\ completion = <<NotJson>>
    /\ minutes # <<>>
    /\ transcript # << <<>> >>

\* C10: between two chunks, and once transcribe_audio is left, no temporary
\* file and no file handle of a chunk is still open.
C10_ChunkResourcesReleased ==
    pc \in {"chunk_loop", "summarize", "extract_call", "write", "done", "failed"} =>
        held = {}

=============================================================================
